---- MODULE Spec2Model ----
(***************************************************************************)
(* Model of generate_meta_supplemental_feed.py: a one-shot batch process   *)
(* that resolves an Admin API token, pages through the product catalog of  *)
(* a shop over GraphQL, fans each product's author metafield out to its    *)
(* variants and writes the rows to a CSV file.                             *)
(*                                                                         *)
(* Strings are sequences of one-character strings, so that strip() and the *)
(* string formatting of the script act on their characters.  A JSON value  *)
(* is a record [t, s]: t = "null" for None/null, t = "str" for a string    *)
(* whose characters are s.  An optional JSON object is a sequence of       *)
(* length 0 (None) or 1.                                                   *)
(***************************************************************************)
EXTENDS Integers, Sequences, FiniteSets, TLC

----------------------------------------------------------------------------
(* Bounds of the model *)

\* longest metafield value served by the mocked API
MaxLen == 2
\* most variants of one product in the single-product catalogs
MaxVariants == 2
\* most products of a multi-page catalog
MaxCatalog == 6
\* products per page served (the query asks for first: 100)
PageSize == 2
\* runs of the script against the same catalog snapshot
MaxRuns == 2
\* GraphQL requests one run may issue before the model stops following it
MaxRequests == 5

----------------------------------------------------------------------------
(* JSON values and Python's view of them *)

Null == [t |-> "null", s |-> <<>>]

JStr(s) == [t |-> "str", s |-> s]

\* Python truthiness of a JSON value: None and "" are falsy
Truthy(v) == v.t = "str" /\ v.s # <<>>

\* str(v): a str is returned as it is, None reads "None"
PyStr(v) == IF v.t = "str" THEN v.s ELSE <<"N", "o", "n", "e">>

\* x or "" : x when truthy, else the empty string
OrEmpty(v) == IF Truthy(v) THEN v ELSE JStr(<<>>)

Whitespace == {" "}

RECURSIVE LStrip(_)
LStrip(s) ==
    IF s # <<>> /\ Head(s) \in Whitespace THEN LStrip(Tail(s)) ELSE s

RECURSIVE RStrip(_)
RStrip(s) ==
    IF s # <<>> /\ s[Len(s)] \in Whitespace
    THEN RStrip(SubSeq(s, 1, Len(s) - 1))
    ELSE s

\* str.strip(): leading and trailing whitespace removed
Strip(s) == RStrip(LStrip(s))

SeqUpTo(S, n) == UNION {[1..k -> S] : k \in 0..n}

----------------------------------------------------------------------------
(* Configuration *)

AUTHOR_NAMESPACE == <<"custom">>
AUTHOR_KEY == <<"author">>
META_LABEL_COL == <<"custom_label_0">>

\* raw values of the environment variables that decide authentication
EnvDomain ==
    [SHOPIFY_TOKEN : {<<>>, <<" ">>, <<"t">>},
     CLIENT_ID     : {<<>>, <<"i">>},
     CLIENT_SECRET : {<<>>, <<"s">>}]

\* the token the OAuth endpoint issues
IssuedToken == <<"T">>

----------------------------------------------------------------------------
(* The remote shop: its catalog snapshot and the pages it serves *)

\* the node the query selects for one product
Product(title, mf, ids) ==
    [title      |-> title,
     metafield  |-> mf,
     metafields |-> IF mf = <<>> THEN <<>>
                    ELSE <<[namespace |-> AUTHOR_NAMESPACE,
                            key       |-> AUTHOR_KEY,
                            value     |-> mf[1]]>>,
     variants   |-> ids]

Alphabet == {" ", "J"}

MetafieldDomain ==
    {<<>>, <<Null>>} \cup {<<JStr(s)>> : s \in SeqUpTo(Alphabet, MaxLen)}

VariantIdDomain == {Null, JStr(<<>>), JStr(<<"7">>)}

\* every shape of a single product: label absent, null, blank, padded; ids
\* null, empty or present
VarietyProducts ==
    {Product(<<"V">>, mf, ids) :
        mf \in MetafieldDomain, ids \in SeqUpTo(VariantIdDomain, MaxVariants)}

\* product A of the scenario: label "J D", variants 111 and 222
ProductA == Product(<<"A">>, <<JStr(<<"J", " ", "D">>)>>,
                    <<JStr(<<"111">>), JStr(<<"222">>)>>)

\* product B of the scenario: no label, variant 333
ProductB == Product(<<"B">>, <<>>, <<JStr(<<"333">>)>>)

\* the catalog snapshots a run is checked against
Catalogs ==
    {<<p>> : p \in VarietyProducts} \cup SeqUpTo({ProductA, ProductB}, MaxCatalog)

\* the cursor of the last edge of page k, opaque to the client
EndCursor(k) == JStr([i \in 1..k |-> "c"])

\* pages that precede the position a cursor names
CursorOffset(c) == IF c.t = "null" THEN 0 ELSE Len(c.s)

Min(a, b) == IF a <= b THEN a ELSE b

\* data["products"] of the response to products(first: PageSize, after: c)
ServePage(cat, c) ==
    LET k  == CursorOffset(c) + 1
        lo == (k - 1) * PageSize + 1
        hi == Min(k * PageSize, Len(cat))
    IN  [edges    |-> SubSeq(cat, lo, hi),
         pageInfo |-> [hasNextPage |-> hi < Len(cat),
                       endCursor   |-> IF lo <= hi THEN EndCursor(k) ELSE Null]]

\* pages the shop serves for a catalog: an empty catalog is one empty page
NumPages(cat) ==
    IF cat = <<>> THEN 1 ELSE (Len(cat) + PageSize - 1) \div PageSize

----------------------------------------------------------------------------
(* The transformation of main() *)

DebugSampleCap == 5

\* the label taken as served, not stripped
Author_NoStrip(p) ==
    LET mf    == p.metafield
        value == IF mf # <<>> THEN mf[1] ELSE JStr(<<>>)
    IN  PyStr(OrEmpty(value))

\* the resolved label of a product
Author(p) ==
    LET mf    == p.metafield
        value == IF mf # <<>> THEN mf[1] ELSE JStr(<<>>)
    IN  Strip(PyStr(OrEmpty(value)))

\* one line of the namespace listing of a debug sample
MetafieldLine(m) == m.namespace \o <<".">> \o m.key \o <<"=">> \o PyStr(m.value)

DebugSample(p) ==
    [title                |-> p.title,
     exact_lookup_value   |-> Author(p),
     namespace_metafields |-> [i \in 1..Len(p.metafields) |->
                                  MetafieldLine(p.metafields[i])]]

HasId(v) == Truthy(v)

FeedRow(v, author) == [id |-> PyStr(v), label |-> author]

\* the rows of one product: none without a label, else one per usable id
ProductRows(p) ==
    IF Author(p) = <<>> THEN <<>>
    ELSE LET ids == SelectSeq(p.variants, HasId)
         IN  [i \in 1..Len(ids) |-> FeedRow(ids[i], Author(p))]

\* every product is sampled
SampleAfter_NoCap(samples, p) == Append(samples, DebugSample(p))

\* debug_samples after a product has been looked at
SampleAfter(samples, p) ==
    IF Len(samples) < DebugSampleCap THEN Append(samples, DebugSample(p))
    ELSE samples

\* the body of "for edge in products['edges']" applied to the accumulators
RECURSIVE ProcessEdges(_, _)
ProcessEdges(acc, edges) ==
    IF edges = <<>> THEN acc
    ELSE LET p    == Head(edges)
             new  == ProductRows(p)
             next == [rows           |-> acc.rows \o new,
                      debug_samples  |-> SampleAfter(acc.debug_samples, p),
                      total_variants |-> acc.total_variants + Len(new)]
         IN  ProcessEdges(next, Tail(edges))

\* rows started afresh on every page
LoopBody_RowsPerPage(acc, products) ==
    ProcessEdges([acc EXCEPT !.rows = <<>>], products.edges)

\* the for loop of one turn of the while loop, over the page just served
LoopBody(acc, products) == ProcessEdges(acc, products.edges)

\* the cursor is not advanced
NextCursor_Stale(pageInfo) == Null

\* the cursor of the next request after a page that has a next page
NextCursor(pageInfo) == pageInfo.endCursor

\* hasNextPage is not looked at
HasNextPage_Always(pageInfo) == TRUE

\* the loop goes on after this page
HasNextPage(pageInfo) == pageInfo.hasNextPage

CsvHeader == <<<<"id">>, META_LABEL_COL>>

\* the file opened for appending: the rows follow those already there
WriteCsv_Append(old, rws) ==
    IF old = <<>> THEN <<[header |-> CsvHeader, rows |-> rws]>>
    ELSE <<[header |-> CsvHeader, rows |-> old[1].rows \o rws]>>

\* open(OUT_CSV, "w") and the writer: the old content is replaced
WriteCsv(old, rws) == <<[header |-> CsvHeader, rows |-> rws]>>

----------------------------------------------------------------------------
(* State *)

VARIABLES
    env,             \* the environment variables of the process
    catalog,         \* the shop's products, unchanged across the runs
    file,            \* OUT_CSV on disk: <<>> when absent, else <<content>>
    run,             \* which run of the script this is
    pc,              \* "auth", "loop", "write", "report" or "exit"
    TOKEN,           \* module global TOKEN
    HEADERS,         \* <<>> until built, then <<the X-Shopify-Access-Token>>
    rows,            \* main(): rows
    cursor,          \* main(): cursor
    total_products,  \* main(): total_products
    total_variants,  \* main(): total_variants
    debug_samples,   \* main(): debug_samples
    net,             \* the requests this run has posted, in order
    responses,       \* data["products"] of every page this run was served
    out,             \* what this run has printed, in order
    exit_code,       \* <<>> while running, then <<status>>
    fileAtStart,     \* file as it was when this run started
    fileOpens        \* times this run has opened OUT_CSV for writing

vars == <<env, catalog, file, run, pc, TOKEN, HEADERS, rows, cursor,
          total_products, total_variants, debug_samples, net, responses, out,
          exit_code, fileAtStart, fileOpens>>

world == <<env, catalog, run>>
locals == <<rows, cursor, total_products, total_variants, debug_samples>>

TokenRequest == [kind |-> "token", token |-> <<>>, cursor |-> Null]

GraphqlRequest(headers, c) ==
    [kind |-> "graphql", token |-> headers[1], cursor |-> c]

GraphqlRequests(log) == SelectSeq(log, LAMBDA r : r.kind = "graphql")

Printed(by, msg) == [by |-> by, msg |-> msg]

\* the process as the interpreter starts it: the stripped settings, and the
\* accumulators of main() at their first values
ProcessStart(e) ==
    /\ pc = "auth"
    /\ TOKEN = Strip(e.SHOPIFY_TOKEN)
    /\ HEADERS = <<>>
    /\ rows = <<>>
    /\ cursor = Null
    /\ total_products = 0
    /\ total_variants = 0
    /\ debug_samples = <<>>
    /\ net = <<>>
    /\ responses = <<>>
    /\ out = <<>>
    /\ exit_code = <<>>
    /\ fileOpens = 0

Init ==
    /\ env \in EnvDomain
    /\ catalog \in Catalogs
    /\ file = <<>>
    /\ fileAtStart = <<>>
    /\ run = 1
    /\ ProcessStart(env)

CLIENT_ID == Strip(env.CLIENT_ID)
CLIENT_SECRET == Strip(env.CLIENT_SECRET)

----------------------------------------------------------------------------
(* Authentication, at module level *)

\* an exception nothing catches: the interpreter prints the traceback, whose
\* last line is the exception, and exits with status 1
Uncaught(msg) ==
    /\ out' = Append(out, Printed("interpreter", msg))
    /\ exit_code' = <<1>>
    /\ pc' = "exit"

\* the handler around main(): print the error, sys.exit(1)
Handled(msg) ==
    /\ out' = Append(out, Printed("handler", msg))
    /\ exit_code' = <<1>>
    /\ pc' = "exit"

\* a fresh token is exchanged although TOKEN is configured
UseExplicitToken_AlwaysExchange ==
    /\ pc = "auth"
    /\ TOKEN # <<>>
    /\ net' = Append(net, TokenRequest)
    /\ TOKEN' = IssuedToken
    /\ HEADERS' = <<IssuedToken>>
    /\ pc' = "loop"
    /\ UNCHANGED <<world, file, locals, responses, out, exit_code,
                   fileAtStart, fileOpens>>

\* TOKEN is configured: get_access_token() is not called
UseExplicitToken ==
    /\ pc = "auth"
    /\ TOKEN # <<>>
    /\ HEADERS' = <<TOKEN>>
    /\ pc' = "loop"
    /\ UNCHANGED <<world, file, TOKEN, locals, net, responses, out, exit_code,
                   fileAtStart, fileOpens>>

\* get_access_token() without a complete client id / secret pair
MissingCredentials ==
    /\ pc = "auth"
    /\ TOKEN = <<>>
    /\ CLIENT_ID = <<>> \/ CLIENT_SECRET = <<>>
    /\ Uncaught("Missing CLIENT_ID or CLIENT_SECRET")
    /\ UNCHANGED <<world, file, TOKEN, HEADERS, locals, net, responses,
                   fileAtStart, fileOpens>>

\* the exchange is tried whatever the client id and secret are
ExchangeGuard_NoCredentialCheck ==
    /\ pc = "auth"
    /\ TOKEN = <<>>

\* get_access_token() with the client id and secret present
ExchangeGuard ==
    /\ pc = "auth"
    /\ TOKEN = <<>>
    /\ CLIENT_ID # <<>>
    /\ CLIENT_SECRET # <<>>

\* the token endpoint answers with an access_token
TokenExchangeOk ==
    /\ ExchangeGuard
    /\ net' = Append(net, TokenRequest)
    /\ TOKEN' = IssuedToken
    /\ HEADERS' = <<IssuedToken>>
    /\ pc' = "loop"
    /\ UNCHANGED <<world, file, locals, responses, out, exit_code,
                   fileAtStart, fileOpens>>

\* the token endpoint answers with a failure status: raise_for_status()
TokenExchangeHttpError ==
    /\ ExchangeGuard
    /\ net' = Append(net, TokenRequest)
    /\ Uncaught("HTTPError")
    /\ UNCHANGED <<world, file, TOKEN, HEADERS, locals, responses,
                   fileAtStart, fileOpens>>

\* the token endpoint answers without access_token
TokenExchangeNoToken ==
    /\ ExchangeGuard
    /\ net' = Append(net, TokenRequest)
    /\ Uncaught("Token response did not include access_token")
    /\ UNCHANGED <<world, file, TOKEN, HEADERS, locals, responses,
                   fileAtStart, fileOpens>>

----------------------------------------------------------------------------
(* main(): the fetch loop *)

CanRequest ==
    /\ pc = "loop"
    /\ Len(GraphqlRequests(net)) < MaxRequests

\* one turn of "while True": the page is served, its products are processed,
\* and the loop either advances the cursor or breaks
FetchPage ==
    /\ CanRequest
    /\ LET products == ServePage(catalog, cursor)
           acc == LoopBody([rows           |-> rows,
                            debug_samples  |-> debug_samples,
                            total_variants |-> total_variants],
                           products)
       IN  /\ net' = Append(net, GraphqlRequest(HEADERS, cursor))
           /\ responses' = Append(responses, products)
           /\ total_products' = total_products + Len(products.edges)
           /\ rows' = acc.rows
           /\ debug_samples' = acc.debug_samples
           /\ total_variants' = acc.total_variants
           /\ IF HasNextPage(products.pageInfo)
              THEN /\ cursor' = NextCursor(products.pageInfo)
                   /\ pc' = "loop"
              ELSE /\ cursor' = cursor
                   /\ pc' = "write"
    /\ UNCHANGED <<world, file, TOKEN, HEADERS, out, exit_code, fileAtStart,
                   fileOpens>>

\* gql(): the response has a failure status, raise_for_status() raises
FetchHttpError ==
    /\ CanRequest
    /\ net' = Append(net, GraphqlRequest(HEADERS, cursor))
    /\ Handled("HTTPError")
    /\ UNCHANGED <<world, file, TOKEN, HEADERS, locals, responses,
                   fileAtStart, fileOpens>>

\* the error payload is reported and the loop left, the rows so far kept
FetchGraphqlErrors_BreakAndWrite ==
    /\ CanRequest
    /\ net' = Append(net, GraphqlRequest(HEADERS, cursor))
    /\ out' = Append(out, Printed("main", "errors"))
    /\ pc' = "write"
    /\ UNCHANGED <<world, file, TOKEN, HEADERS, locals, responses, exit_code,
                   fileAtStart, fileOpens>>

\* gql(): the response carries a top-level "errors" list
FetchGraphqlErrors ==
    /\ CanRequest
    /\ net' = Append(net, GraphqlRequest(HEADERS, cursor))
    /\ Handled("errors")
    /\ UNCHANGED <<world, file, TOKEN, HEADERS, locals, responses,
                   fileAtStart, fileOpens>>

----------------------------------------------------------------------------
(* main(): the output *)

\* the file is opened for writing, the header and the rows are written
WriteFile ==
    /\ pc = "write"
    /\ file' = WriteCsv(file, rows)
    /\ fileOpens' = fileOpens + 1
    /\ pc' = "report"
    /\ UNCHANGED <<world, TOKEN, HEADERS, locals, net, responses, out,
                   exit_code, fileAtStart>>

\* open() raises (the path cannot be written): nothing is written
OpenFails ==
    /\ pc = "write"
    /\ Handled("OSError")
    /\ UNCHANGED <<world, file, TOKEN, HEADERS, locals, net, responses,
                   fileAtStart, fileOpens>>

\* the debug listing is printed when no row was counted
DebugWanted(n) == n = 0

DebugLines(samples) ==
    <<Printed("main", "DEBUG")>> \o
    [i \in 1..Len(samples) |-> Printed("main", "Product")]

\* the summary, the debug listing, and the end of the script
Report ==
    /\ pc = "report"
    /\ out' = out \o <<Printed("main", "Wrote"),
                       Printed("main", "Products scanned"),
                       Printed("main", "Rows written")>>
                  \o (IF DebugWanted(total_variants)
                      THEN DebugLines(debug_samples) ELSE <<>>)
    /\ exit_code' = <<0>>
    /\ pc' = "exit"
    /\ UNCHANGED <<world, file, TOKEN, HEADERS, locals, net, responses,
                   fileAtStart, fileOpens>>

\* the script is run again, on the same settings and the same catalog
Rerun ==
    /\ pc = "exit"
    /\ run < MaxRuns
    /\ run' = run + 1
    /\ fileAtStart' = file
    /\ pc' = "auth"
    /\ TOKEN' = Strip(env.SHOPIFY_TOKEN)
    /\ HEADERS' = <<>>
    /\ rows' = <<>>
    /\ cursor' = Null
    /\ total_products' = 0
    /\ total_variants' = 0
    /\ debug_samples' = <<>>
    /\ net' = <<>>
    /\ responses' = <<>>
    /\ out' = <<>>
    /\ exit_code' = <<>>
    /\ fileOpens' = 0
    /\ UNCHANGED <<env, catalog, file>>

Next ==
    \/ UseExplicitToken
    \/ MissingCredentials
    \/ TokenExchangeOk
    \/ TokenExchangeHttpError
    \/ TokenExchangeNoToken
    \/ FetchPage
    \/ FetchHttpError
    \/ FetchGraphqlErrors
    \/ WriteFile
    \/ OpenFails
    \/ Report
    \/ Rerun

Spec == Init /\ [][Next]_vars

----------------------------------------------------------------------------
(* What the properties speak of, stated apart from the code's own operators *)

Range(f) == {f[i] : i \in DOMAIN f}

RECURSIVE SumSeq(_)
SumSeq(ns) == IF ns = <<>> THEN 0 ELSE Head(ns) + SumSeq(Tail(ns))

\* t is s without its leading and trailing whitespace
IsTrimOf(t, s) ==
    \E i \in 1..(Len(s) + 1), j \in 0..Len(s) :
        /\ i <= j + 1
        /\ t = SubSeq(s, i, j)
        /\ \A n \in 1..(i - 1) : s[n] \in Whitespace
        /\ \A n \in (j + 1)..Len(s) : s[n] \in Whitespace
        /\ t = <<>> \/ (t[1] \notin Whitespace /\ t[Len(t)] \notin Whitespace)

\* the label a product resolves to: its metafield value, trimmed; an absent
\* metafield or an absent value is the empty label
LabelOf(p) ==
    IF p.metafield = <<>> \/ p.metafield[1].t = "null" THEN <<>>
    ELSE CHOOSE t \in {SubSeq(p.metafield[1].s, i, j) :
                          i \in 1..(Len(p.metafield[1].s) + 1),
                          j \in 0..Len(p.metafield[1].s)} :
             IsTrimOf(t, p.metafield[1].s)

NonEmptyId(v) == v.t = "str" /\ Len(v.s) > 0

\* (page, product, variant) positions of everything this run was served
Positions ==
    UNION {UNION {{<<i, j, k>> : k \in 1..Len(responses[i].edges[j].variants)} :
                     j \in 1..Len(responses[i].edges)} :
              i \in 1..Len(responses)}

ProductAt(q) == responses[q[1]].edges[q[2]]
VariantAt(q) == ProductAt(q).variants[q[3]]

\* the positions that are to give a row
Qualifying ==
    {q \in Positions : LabelOf(ProductAt(q)) # <<>> /\ NonEmptyId(VariantAt(q))}

RowOf(q) == [id |-> VariantAt(q).s, label |-> LabelOf(ProductAt(q))]

\* page order, then product order, then variant order
Before(a, b) ==
    \/ a[1] < b[1]
    \/ a[1] = b[1] /\ a[2] < b[2]
    \/ a[1] = b[1] /\ a[2] = b[2] /\ a[3] <= b[3]

Rank(q) == Cardinality({r \in Qualifying : Before(r, q)})

ProductsFetched == SumSeq([i \in 1..Len(responses) |-> Len(responses[i].edges)])

VariantsFetched ==
    SumSeq([i \in 1..Len(responses) |->
               SumSeq([j \in 1..Len(responses[i].edges) |->
                          Len(responses[i].edges[j].variants)])])

\* the products served so far, in the order served
RECURSIVE Flatten(_)
Flatten(pages) ==
    IF pages = <<>> THEN <<>> ELSE Head(pages).edges \o Flatten(Tail(pages))

Succeeded == exit_code = <<0>>
Failed == exit_code = <<1>>

TokenConfigured == \E n \in 1..Len(env.SHOPIFY_TOKEN) : env.SHOPIFY_TOKEN[n] # " "
IdConfigured == \E n \in 1..Len(env.CLIENT_ID) : env.CLIENT_ID[n] # " "
SecretConfigured == \E n \in 1..Len(env.CLIENT_SECRET) : env.CLIENT_SECRET[n] # " "

Gql == GraphqlRequests(net)

\* the last GraphQL request of this run was answered with a failure
FetchFailed == Len(Gql) > Len(responses)

----------------------------------------------------------------------------
(* Properties *)

\* C1: when a run has completed, the file holds the row (id, label) of a
\* served variant exactly if its product's label is non-empty and its id is
\* non-empty; every row of the file comes from such a pair, one row for each.
RowsIffLabelAndId ==
    Succeeded =>
        /\ file # <<>>
        /\ \A q \in Positions :
              ([id    |-> PyStr(VariantAt(q)),
                label |-> LabelOf(ProductAt(q))] \in Range(file[1].rows))
                  <=> (q \in Qualifying)
        /\ \A r \in Range(file[1].rows) : \E q \in Qualifying : r = RowOf(q)
        /\ Len(file[1].rows) = Cardinality(Qualifying)

\* a completed run over a product whose label is padded with whitespace and
\* which has a variant without id and a variant with one
RowsIffLabelAndIdWitness ==
    /\ Succeeded
    /\ \E q \in Qualifying :
          /\ ProductAt(q).metafield[1].s # LabelOf(ProductAt(q))
          /\ \E o \in Positions \ Qualifying :
                o[1] = q[1] /\ o[2] = q[2] /\ VariantAt(o) = Null
    /\ file[1].rows # <<>>

\* C2: the file is opened only after every page has been fetched; a failed
\* page request ends the run with status 1, the file never opened and left as
\* it was when the run started.
NoPartialOutput ==
    /\ fileOpens > 0 =>
          /\ ~FetchFailed
          /\ Len(responses) = NumPages(catalog)
          /\ ~responses[Len(responses)].pageInfo.hasNextPage
          /\ Flatten(responses) = catalog
    /\ FetchFailed =>
          /\ pc = "exit"
          /\ Failed
          /\ fileOpens = 0
          /\ file = fileAtStart

\* a request fails after an earlier page gave rows, with a file of an
\* earlier run on disk
NoPartialOutputWitness ==
    /\ FetchFailed
    /\ Len(responses) >= 1
    /\ rows # <<>>
    /\ fileAtStart # <<>>
    /\ file = fileAtStart

\* C3: with no failed request, a catalog of N pages takes exactly N page
\* requests: the page that reports hasNextPage = false is the last one
\* requested, and the run goes on to write the file.
PaginationTerminates ==
    /\ Len(Gql) <= NumPages(catalog)
    /\ \A i \in 1..Len(responses) :
          IF responses[i].pageInfo.hasNextPage
          THEN i < NumPages(catalog) /\ (i = Len(responses) => pc \in {"loop", "exit"})
          ELSE /\ i = NumPages(catalog)
               /\ i = Len(responses)
               /\ Len(Gql) = i
               /\ pc \in {"write", "report", "exit"}
    /\ (pc \in {"write", "report"} \/ Succeeded) =>
          /\ Len(Gql) = NumPages(catalog)
          /\ Len(responses) = NumPages(catalog)

\* a run over three pages has reached the write
PaginationTerminatesWitness ==
    /\ pc = "write"
    /\ NumPages(catalog) = 3
    /\ Len(Gql) = 3

\* C4: with neither a token nor a complete client id / secret pair, no
\* request is posted at any point, and the run ends with status 1 and the
\* configuration error printed.
ConfigErrorBeforeNetwork ==
    (~TokenConfigured /\ ~(IdConfigured /\ SecretConfigured)) =>
        /\ net = <<>>
        /\ responses = <<>>
        /\ pc \in {"auth", "exit"}
        /\ pc = "exit" =>
              /\ Failed
              /\ Len(out) = 1
              /\ out[1].msg = "Missing CLIENT_ID or CLIENT_SECRET"

\* the run has ended on the configuration error, the token variable being
\* set to whitespace only and the secret missing
ConfigErrorBeforeNetworkWitness ==
    /\ pc = "exit"
    /\ env.SHOPIFY_TOKEN = <<" ">>
    /\ env.CLIENT_ID # <<>>
    /\ env.CLIENT_SECRET = <<>>
    /\ Failed

HandlerMessages == {i \in 1..Len(out) : out[i].by = "handler"}

\* C5: every fatal condition ends the run with status 1 and exactly one
\* message, printed by the handler around main(); status 0 is the successful
\* run only; no request is posted again after a failure.
SingleHandledError ==
    /\ Failed => Cardinality(HandlerMessages) = 1 /\ Len(out) = 1
    /\ Succeeded => fileOpens = 1 /\ ~FetchFailed
    /\ pc = "exit" => exit_code # <<>>

\* C6: a run that completes where an earlier run on the same snapshot left
\* its file writes the same file again: the header, then the rows in page
\* order, product order within a page and variant order within a product.
SameSnapshotSameFile ==
    Succeeded =>
        /\ fileAtStart # <<>> => file = fileAtStart
        /\ file[1].header = <<<<"id">>, <<"custom_label_0">>>>
        /\ Len(file[1].rows) = Cardinality(Qualifying)
        /\ \A q \in Qualifying : file[1].rows[Rank(q)] = RowOf(q)

\* the second run has completed over a file of several rows from two pages
SameSnapshotSameFileWitness ==
    /\ Succeeded
    /\ run = 2
    /\ fileAtStart # <<>>
    /\ Len(file[1].rows) >= 3
    /\ \E q \in Qualifying : q[1] = 2
    /\ \E q \in Qualifying : q[1] = 1

\* C7: the rows accumulated never outnumber the variants of the pages
\* fetched so far, and within a run their number never goes down.
RowCountBounded ==
    /\ [](Len(rows) <= VariantsFetched)
    /\ [][run' = run => Len(rows') >= Len(rows)]_vars

\* two pages in, some variants have given rows and some have not
RowCountBoundedWitness ==
    /\ pc = "loop"
    /\ Len(responses) >= 2
    /\ Len(rows) > 0
    /\ Len(rows) < VariantsFetched

CursorThreaded ==
    /\ Gql # <<>> => Gql[1].cursor = Null
    /\ \A k \in 1..(Len(Gql) - 1) :
          /\ k <= Len(responses)
          /\ responses[k].pageInfo.hasNextPage
          /\ Gql[k + 1].cursor = responses[k].pageInfo.endCursor
    /\ Len(responses) >= Len(Gql) - 1
    /\ cursor = IF responses # <<>> /\ responses[Len(responses)].pageInfo.hasNextPage
                THEN responses[Len(responses)].pageInfo.endCursor
                ELSE IF Len(responses) >= 2
                     THEN responses[Len(responses) - 1].pageInfo.endCursor
                     ELSE Null
    /\ total_products = ProductsFetched
    /\ Len(rows) = Cardinality(Qualifying)

\* the third page request has been posted
CursorThreadedWitness ==
    /\ Len(Gql) >= 3
    /\ Gql[3].cursor # Gql[2].cursor
    /\ Gql[2].cursor # Null

DebugPrinted == \E i \in 1..Len(out) : out[i].msg = "DEBUG"

\* C10: the debug listing is printed exactly when the run completed without
\* rows, after the file was written; the samples are at most five, the first
\* products fetched, with or without label.
DebugSampling ==
    /\ DebugPrinted <=> (Succeeded /\ rows = <<>>)
    /\ DebugPrinted => fileOpens = 1 /\ file # <<>>
    /\ DebugPrinted =>
          Cardinality({i \in 1..Len(out) : out[i].msg = "Product"})
              = Len(debug_samples)
    /\ Len(debug_samples) <= 5
    /\ Len(debug_samples) = Min(5, ProductsFetched)
    /\ \A i \in 1..Len(debug_samples) :
          /\ debug_samples[i].title = Flatten(responses)[i].title
          /\ debug_samples[i].exact_lookup_value = LabelOf(Flatten(responses)[i])

\* a run over six products without label has printed the listing
DebugSamplingWitness ==
    /\ DebugPrinted
    /\ ProductsFetched = 6
    /\ Len(debug_samples) = 5

====
